---- MODULE Spec2Model ----
(***************************************************************************)
(* Model of download_cancer_distribution_batch.py: the identifier loader,  *)
(* the occurrence fetcher, the cached denominator resolver, the row        *)
(* aggregation with its sort, and the sequential driver loop of main().    *)
(*                                                                         *)
(* Projects, cases and genes are small integers.  A field of a hit is a    *)
(* project/case number, Falsy (the key is present but its value is None or *)
(* the empty string) or Absent (the key is not in the JSON object).        *)
(***************************************************************************)
EXTENDS Integers, Sequences, FiniteSets, TLC

VARIABLES
    gene_ids,              \* main: the list returned by load_gene_ids
    idx,                   \* main: position of the outer for loop (1-based)
    pc,                    \* main: "fetch" | "resolve" | "write" | "done"
    proj_to_cases,         \* main: the current gene's OccurrenceMap (insertion-ordered dict)
    proj_total_ssm_cases,  \* main: the current gene's denominators (dict)
    pos,                   \* main: position of the inner for loop over proj_to_cases.keys()
    proj_total_cache,      \* main: the denominator cache (dict project -> total)
    files,                 \* the file system: gene -> rows of the written report
    occ_resp,              \* the ssm_occurrences response the fetcher is looking at
    status,                \* per gene: where it is in the per-gene state machine
    order,                 \* observer: the genes in the order the loop body took them
    net_calls,             \* observer: case_ssms requests sent, per project
    net_ok,                \* observer: case_ssms requests answered with success, per project
    first_ret,             \* observer: per project, {} or {outcome of the first resolver call}
    ok_ret,                \* observer: per project, {} or {value of the first successful call}
    last_call,             \* observer: the most recent resolver call
    failed,                \* observer: projects of the current gene whose resolution raised
    agg_map,               \* aggregation alone: the OccurrenceMap argument
    agg_totals,            \* aggregation alone: the denominator mapping argument
    agg_rows,              \* aggregation alone: rows of the first call
    agg_rows2,             \* aggregation alone: rows of the second call
    agg_pc,                \* aggregation alone: "idle" | "ready" | "once" | "twice"
    ld_table,              \* loader alone: the input table, header and rows of cells
    ld_out,                \* loader alone: what load_gene_ids returned
    ld_pc                  \* loader alone: "idle" | "ready" | "returned" | "raised"

driverVars == << gene_ids, idx, pc, proj_to_cases, proj_total_ssm_cases, pos,
                 proj_total_cache, files, occ_resp, status, order, net_calls,
                 net_ok, first_ret, ok_ret, last_call, failed >>
aggVars == << agg_map, agg_totals, agg_rows, agg_rows2, agg_pc >>
ldVars == << ld_table, ld_out, ld_pc >>
pureVars == << aggVars, ldVars >>
vars == << driverVars, aggVars, ldVars >>

----------------------------------------------------------------------------
(* Bounds of the model *)

MaxGenes == 2
MaxProjects == 2
MaxCases == 2
MaxHits == 2
MaxTotal == 2
MaxCols == 2
MaxRows == 2

Projects == 1..MaxProjects
Cases == 1..MaxCases

\* a JSON value that is present but falsy in Python (None, "")
Falsy == 0
\* the key is not in the JSON object: indexing it raises KeyError
Absent == -1

SeqsUpTo(S, n) == UNION { [1..k -> S] : k \in 0..n }

Hits == [proj : Projects \cup {Falsy, Absent}, case : Cases \cup {Falsy, Absent}]

\* no response is being looked at
NoResp == [ok |-> FALSE, hits |-> << [proj |-> Absent, case |-> Absent] >>]

\* what the ssm_occurrences endpoint can answer
OccResponses ==
    { [ok |-> FALSE, hits |-> << >>] } \cup
    { [ok |-> TRUE, hits |-> h] : h \in SeqsUpTo(Hits, MaxHits) }

\* what the case_ssms endpoint can answer
SsmResponses ==
    { [ok |-> FALSE, total |-> 0] } \cup
    { [ok |-> TRUE, total |-> t] : t \in 0..MaxTotal }

----------------------------------------------------------------------------
(* dict helpers: an insertion-ordered dict of sets is a sequence of         *)
(* [proj, cases] records with distinct proj                                 *)

Keys(m) == { m[i].proj : i \in 1..Len(m) }

\* proj_to_cases[proj].add(case_id) on a defaultdict(set)
AddCase(m, p, c) ==
    IF p \in Keys(m)
    THEN [ i \in 1..Len(m) |->
             IF m[i].proj = p THEN [m[i] EXCEPT !.cases = @ \cup {c}] ELSE m[i] ]
    ELSE Append(m, [proj |-> p, cases |-> {c}])

\* Python truthiness of a field value
Truthy(v) == v # Falsy

\* the for loop over the hits, lines 92-96
RECURSIVE collect_hits(_, _)
collect_hits(data, acc) ==
    IF data = << >>
    THEN [raised |-> FALSE, value |-> acc]
    ELSE LET item == Head(data) IN
         IF item.proj = Absent \/ item.case = Absent
         THEN [raised |-> TRUE, value |-> << >>]
         ELSE collect_hits(Tail(data),
                           IF Truthy(item.proj) /\ Truthy(item.case)
                           THEN AddCase(acc, item.proj, item.case)
                           ELSE acc)

get_mutated_cases_by_project(resp) ==
    IF ~resp.ok
    THEN [raised |-> TRUE, value |-> << >>]
    ELSE collect_hits(resp.hits, << >>)

\* the resolver without the cache lookup
get_total_no_lookup(project_id, resp, cache) ==
    IF ~resp.ok
    THEN [raised |-> TRUE, ret |-> 0, cache |-> cache, net |-> TRUE]
    ELSE [raised |-> FALSE, ret |-> resp.total,
          cache |-> (project_id :> resp.total) @@ cache, net |-> TRUE]

\* the resolver without the cache store
get_total_no_store(project_id, resp, cache) ==
    IF project_id \in DOMAIN cache
    THEN [raised |-> FALSE, ret |-> cache[project_id], cache |-> cache, net |-> FALSE]
    ELSE IF ~resp.ok
         THEN [raised |-> TRUE, ret |-> 0, cache |-> cache, net |-> TRUE]
         ELSE [raised |-> FALSE, ret |-> resp.total, cache |-> cache, net |-> TRUE]

\* the resolver that answers a cache hit with a fresh query
get_total_requery(project_id, resp, cache) ==
    IF ~resp.ok
    THEN [raised |-> TRUE, ret |-> 0, cache |-> cache, net |-> TRUE]
    ELSE [raised |-> FALSE, ret |-> resp.total,
          cache |-> IF project_id \in DOMAIN cache THEN cache
                    ELSE (project_id :> resp.total) @@ cache,
          net |-> TRUE]

\* the resolver: its outcome, the cache afterwards, whether a request was sent
get_total_ssm_cases_for_project(project_id, resp, cache) ==
    IF project_id \in DOMAIN cache
    THEN [raised |-> FALSE, ret |-> cache[project_id], cache |-> cache, net |-> FALSE]
    ELSE IF ~resp.ok
         THEN [raised |-> TRUE, ret |-> 0, cache |-> cache, net |-> TRUE]
         ELSE [raised |-> FALSE, ret |-> resp.total,
               cache |-> (project_id :> resp.total) @@ cache, net |-> TRUE]

----------------------------------------------------------------------------
(* write_cancer_distribution_tsv: the rows and their order.  A percentage  *)
(* is the exact rational cases*100/total in lowest terms, << num, den >>;  *)
(* None is << >>.  For the small integers of the model two such floats are *)
(* equal, or ordered, exactly as the rationals are.                        *)

None == << >>

RECURSIVE GCD(_, _)
GCD(a, b) == IF b = 0 THEN a ELSE GCD(b, a % b)

Ratio(n, d) == LET g == GCD(n, d) IN << n \div g, d \div g >>

\* dict.get(key, default)
dict_get(d, k, default) == IF k \in DOMAIN d THEN d[k] ELSE default

\* make_row with the percentage left as a fraction
make_row_fraction(entry, proj_total) ==
    LET cases_affected == Cardinality(entry.cases)
        total_ssm == dict_get(proj_total, entry.proj, 0)
        pct == IF total_ssm # 0 THEN Ratio(cases_affected, total_ssm) ELSE None
    IN [ project_id |-> entry.proj,
         cases_affected |-> cases_affected,
         total_cases_with_ssm_data |-> total_ssm,
         percent_cases_affected |-> pct ]

\* the body of the loop at lines 160-171
make_row(entry, proj_total) ==
    LET cases_affected == Cardinality(entry.cases)
        total_ssm == dict_get(proj_total, entry.proj, 0)
        pct == IF total_ssm # 0 THEN Ratio(cases_affected * 100, total_ssm) ELSE None
    IN [ project_id |-> entry.proj,
         cases_affected |-> cases_affected,
         total_cases_with_ssm_data |-> total_ssm,
         percent_cases_affected |-> pct ]

make_rows(m, proj_total) == [ i \in 1..Len(m) |-> make_row(m[i], proj_total) ]

\* key=lambda r: (r["percent_cases_affected"] or 0)
sort_key(r) ==
    LET pct == r.percent_cases_affected IN
    IF pct = None \/ pct[1] = 0 THEN << 0, 1 >> ELSE pct

KeyLess(a, b) == a[1] * b[2] < b[1] * a[2]

Reverse(s) == [ i \in 1..Len(s) |-> s[Len(s) + 1 - i] ]

\* one insertion of a stable ascending sort: r goes after every element
\* whose key is not greater than its own
InsertStable(sorted, r) ==
    LET after == { i \in 1..Len(sorted) : KeyLess(sort_key(r), sort_key(sorted[i])) }
        k == IF after = {} THEN Len(sorted) + 1
             ELSE CHOOSE i \in after : \A j \in after : i <= j
    IN SubSeq(sorted, 1, k - 1) \o << r >> \o SubSeq(sorted, k, Len(sorted))

RECURSIVE stable_sort_from(_, _)
stable_sort_from(rest, sorted) ==
    IF rest = << >> THEN sorted
    ELSE stable_sort_from(Tail(rest), InsertStable(sorted, Head(rest)))

stable_sort(rows) == stable_sort_from(rows, << >>)

\* list_sort_reverse as an ascending sort followed by a reversal
list_sort_then_reverse(rows) == Reverse(stable_sort(rows))

\* rows.sort(key=..., reverse=True): list.sort reverses the list, sorts it
\* ascending with a stable sort, and reverses the result
list_sort_reverse(rows) == Reverse(stable_sort(Reverse(rows)))

\* the rows handed to the csv writer
report_rows(m, proj_total) == list_sort_reverse(make_rows(m, proj_total))

----------------------------------------------------------------------------
(* load_gene_ids.  A string is a sequence of one-character strings; the   *)
(* file is its lines, the header first, each without its line terminator. *)

TAB == "\t"
Whitespace == { " ", TAB }

GENE_PREFIX == << "E", "N", "S", "G" >>

\* str.strip()
RECURSIVE lstrip(_)
lstrip(s) == IF s # << >> /\ Head(s) \in Whitespace THEN lstrip(Tail(s)) ELSE s

RECURSIVE rstrip(_)
rstrip(s) ==
    IF s # << >> /\ s[Len(s)] \in Whitespace THEN rstrip(SubSeq(s, 1, Len(s) - 1)) ELSE s

strip(s) == rstrip(lstrip(s))

\* str.lower() on the letters of the alphabet in use
lower_char(c) ==
    CASE c = "T" -> "t"
      [] c = "O" -> "o"
      [] c = "F" -> "f"
      [] c = "E" -> "e"
      [] c = "N" -> "n"
      [] c = "S" -> "s"
      [] c = "G" -> "g"
      [] OTHER -> c

lower(s) == [ i \in 1..Len(s) |-> lower_char(s[i]) ]

\* str.split(sep): the fields between the separators, [""] for the empty string
RECURSIVE split_from(_, _, _)
split_from(s, sep, cur) ==
    IF s = << >> THEN << cur >>
    ELSE IF Head(s) = sep THEN << cur >> \o split_from(Tail(s), sep, << >>)
    ELSE split_from(Tail(s), sep, Append(cur, Head(s)))

split(s, sep) == split_from(s, sep, << >>)

\* str.startswith(prefix)
startswith(s, prefix) ==
    Len(s) >= Len(prefix) /\ SubSeq(s, 1, Len(prefix)) = prefix

\* code points of the characters in use
ord(c) ==
    CASE c = TAB -> 9
      [] c = " " -> 32
      [] c = "." -> 46
      [] c = "0" -> 48
      [] c = "1" -> 49
      [] c = "3" -> 51
      [] c = "E" -> 69
      [] c = "F" -> 70
      [] c = "G" -> 71
      [] c = "N" -> 78
      [] c = "O" -> 79
      [] c = "S" -> 83
      [] c = "T" -> 84
      [] c = "o" -> 111
      [] c = "t" -> 116
      [] c = "x" -> 120

\* str < str
RECURSIVE str_less(_, _)
str_less(a, b) ==
    IF b = << >> THEN FALSE
    ELSE IF a = << >> THEN TRUE
    ELSE IF Head(a) = Head(b) THEN str_less(Tail(a), Tail(b))
    ELSE ord(Head(a)) < ord(Head(b))

\* sorted(set of str)
RECURSIVE sorted(_)
sorted(S) ==
    IF S = {} THEN << >>
    ELSE LET m == CHOOSE x \in S : \A y \in S \ {x} : str_less(x, y)
         IN << m >> \o sorted(S \ {m})

\* to_idx = [i for i, h in enumerate(headers) if h.strip().lower() == "to"][0]
\* (0-based as in the source; -1 when the list is empty and [0] raises)
to_index(headers) ==
    LET hit == { i \in 1..Len(headers) : lower(strip(headers[i])) = << "t", "o" >> }
    IN IF hit = {} THEN -1
       ELSE (CHOOSE i \in hit : \A j \in hit : i <= j) - 1

\* the body of "for line in f", lines 33-46: the set gene_ids after one line
load_line(raw_line, to_idx, ids) ==
    LET line == strip(raw_line) IN
    IF line = << >> THEN ids
    ELSE LET cols == split(line, TAB) IN
         IF Len(cols) <= to_idx THEN ids
         ELSE LET raw_id == strip(cols[to_idx + 1]) IN
              IF raw_id = << >> THEN ids
              ELSE LET gene_id == split(raw_id, ".")[1] IN
                   IF startswith(gene_id, GENE_PREFIX)
                   THEN ids \cup {gene_id}
                   ELSE ids

RECURSIVE load_lines(_, _, _)
load_lines(lines, to_idx, ids) ==
    IF lines = << >> THEN ids
    ELSE load_lines(Tail(lines), to_idx, load_line(Head(lines), to_idx, ids))

\* file_lines[1] is the header line
load_gene_ids(file_lines) ==
    LET headers == split(file_lines[1], TAB)
        to_idx == to_index(headers)
    IN IF to_idx < 0
       THEN [raised |-> TRUE, value |-> << >>]
       ELSE [raised |-> FALSE,
             value |-> sorted(load_lines(Tail(file_lines), to_idx, {}))]

----------------------------------------------------------------------------
(* main(): the driver loop *)

\* the sorted, duplicate-free lists load_gene_ids can return
RECURSIVE SortedSeq(_)
SortedSeq(S) ==
    IF S = {} THEN << >>
    ELSE LET m == CHOOSE x \in S : \A y \in S : x <= y
         IN << m >> \o SortedSeq(S \ {m})

GeneLists == { SortedSeq(S) : S \in SUBSET (1..MaxGenes) }

Genes == { gene_ids[i] : i \in 1..Len(gene_ids) }

Terminal == { "Done-NoOutput", "Done-Error", "Done-Written" }

\* what a resolver call gave its caller: an exception, or a value
Outcome(r) == [raised |-> r.raised, ret |-> r.ret]

NoLastCall ==
    [ proj |-> 0, net |-> FALSE, out |-> [raised |-> FALSE, ret |-> 0], nth |-> 0,
      prior_ok |-> {} ]

AggIdle ==
    /\ agg_map = << >>
    /\ agg_totals = << >>
    /\ agg_rows = << >>
    /\ agg_rows2 = << >>
    /\ agg_pc = "idle"

LoaderIdle ==
    /\ ld_table = [header |-> << >>, rows |-> << >>]
    /\ ld_out = << >>
    /\ ld_pc = "idle"

Init ==
    /\ gene_ids \in GeneLists
    /\ idx = 1
    /\ pc = "loop"
    /\ proj_to_cases = << >>
    /\ proj_total_ssm_cases = << >>
    /\ pos = 1
    /\ proj_total_cache = << >>
    /\ files = << >>
    /\ occ_resp = NoResp
    /\ status = [ g \in Genes |-> "Pending" ]
    /\ order = << >>
    /\ net_calls = [ p \in Projects |-> 0 ]
    /\ net_ok = [ p \in Projects |-> 0 ]
    /\ first_ret = [ p \in Projects |-> {} ]
    /\ ok_ret = [ p \in Projects |-> {} ]
    /\ last_call = NoLastCall
    /\ failed = {}
    /\ AggIdle
    /\ LoaderIdle

\* for idx, gene_id in enumerate(gene_ids, start=1): the loop takes the next
\* gene and session.get returns the response of ssm_occurrences.  The maps
\* of the previous gene are dead from here on (both names are rebound
\* before they are read again), so they are emptied.
StartGene ==
    /\ pc = "loop"
    /\ idx <= Len(gene_ids)
    /\ pc' = "fetch"
    /\ occ_resp' \in OccResponses
    /\ status' = [status EXCEPT ![gene_ids[idx]] = "Fetching"]
    /\ order' = Append(order, gene_ids[idx])
    /\ proj_to_cases' = << >>
    /\ proj_total_ssm_cases' = << >>
    /\ pos' = 1
    /\ failed' = {}
    /\ last_call' = NoLastCall
    /\ UNCHANGED << gene_ids, idx, proj_total_cache, files, net_calls, net_ok,
                    first_ret, ok_ret, pureVars >>

\* the fetch error left uncaught: main ends with the exception
OnFetchErrorUncaught ==
    /\ status' = [status EXCEPT ![gene_ids[idx]] = "Done-Error"]
    /\ idx' = idx
    /\ pc' = "done"
    /\ UNCHANGED << proj_to_cases, proj_total_ssm_cases, pos >>

\* except Exception: print, continue
OnFetchError ==
    /\ status' = [status EXCEPT ![gene_ids[idx]] = "Done-Error"]
    /\ idx' = idx + 1
    /\ pc' = "loop"
    /\ UNCHANGED << proj_to_cases, proj_total_ssm_cases, pos >>

\* if not proj_to_cases: print, continue
OnEmptyMap(value) ==
    /\ status' = [status EXCEPT ![gene_ids[idx]] = "Done-NoOutput"]
    /\ idx' = idx + 1
    /\ pc' = "loop"
    /\ proj_to_cases' = value
    /\ UNCHANGED << proj_total_ssm_cases, pos >>

\* the map has data: proj_total_ssm_cases = {} and the inner for loop starts
OnData(value) ==
    /\ status' = [status EXCEPT ![gene_ids[idx]] = "Resolving"]
    /\ idx' = idx
    /\ pc' = IF Len(value) = 0 THEN "write" ELSE "resolve"
    /\ proj_to_cases' = value
    /\ proj_total_ssm_cases' = << >>
    /\ pos' = 1

\* fetch_branch without the test for an empty map
fetch_branch_no_empty(r) == IF r.raised THEN "error" ELSE "data"

\* which of the three ways the loop body goes after the fetch, lines 207-215
fetch_branch(r) ==
    IF r.raised THEN "error"
    ELSE IF r.value = << >> THEN "empty"
    ELSE "data"

\* the rest of get_mutated_cases_by_project and what main does with it
Fetch ==
    /\ pc = "fetch"
    /\ LET r == get_mutated_cases_by_project(occ_resp)
           b == fetch_branch(r)
       IN \/ b = "error" /\ OnFetchError
          \/ b = "empty" /\ OnEmptyMap(r.value)
          \/ b = "data" /\ OnData(r.value)
    /\ occ_resp' = NoResp
    /\ UNCHANGED << gene_ids, proj_total_cache, files, order, net_calls, net_ok,
                    first_ret, ok_ret, last_call, failed, pureVars >>

\* the handler with 1 as the fallback denominator
denominator_or_one(r) == IF r.raised THEN 1 ELSE r.ret

\* try: total_ssm = get_total...  except Exception: total_ssm = 0
denominator_or_zero(r) == IF r.raised THEN 0 ELSE r.ret

\* one iteration of: for proj in proj_to_cases.keys()
Resolve ==
    /\ pc = "resolve"
    /\ pos <= Len(proj_to_cases)
    /\ \E resp \in SsmResponses :
         LET proj == proj_to_cases[pos].proj
             r == get_total_ssm_cases_for_project(proj, resp, proj_total_cache)
             out == Outcome(r)
         IN /\ proj_total_cache' = r.cache
            /\ proj_total_ssm_cases' =
                   (proj :> denominator_or_zero(r)) @@ proj_total_ssm_cases
            /\ net_calls' = [net_calls EXCEPT ![proj] = @ + (IF r.net THEN 1 ELSE 0)]
            /\ net_ok' = [net_ok EXCEPT
                            ![proj] = @ + (IF r.net /\ ~r.raised THEN 1 ELSE 0)]
            /\ first_ret' = IF first_ret[proj] = {}
                            THEN [first_ret EXCEPT ![proj] = {out}]
                            ELSE first_ret
            /\ ok_ret' = IF ok_ret[proj] = {} /\ ~r.raised
                         THEN [ok_ret EXCEPT ![proj] = {r.ret}]
                         ELSE ok_ret
            /\ last_call' = [ proj |-> proj, net |-> r.net, out |-> out,
                              nth |-> IF first_ret[proj] = {} THEN 1 ELSE 2,
                              prior_ok |-> ok_ret[proj] ]
            /\ failed' = IF r.raised THEN failed \cup {proj} ELSE failed
    /\ pos' = pos + 1
    /\ pc' = IF pos = Len(proj_to_cases) THEN "write" ELSE "resolve"
    /\ UNCHANGED << gene_ids, idx, proj_to_cases, files, occ_resp, status, order,
                    pureVars >>

\* write_cancer_distribution_tsv, then the end of the loop body
Write ==
    /\ pc = "write"
    /\ files' = (gene_ids[idx] :> report_rows(proj_to_cases, proj_total_ssm_cases))
                    @@ files
    /\ status' = [status EXCEPT ![gene_ids[idx]] = "Done-Written"]
    /\ idx' = idx + 1
    /\ pc' = "loop"
    /\ UNCHANGED << gene_ids, proj_to_cases, proj_total_ssm_cases, pos,
                    proj_total_cache, occ_resp, order, net_calls, net_ok,
                    first_ret, ok_ret, last_call, failed, pureVars >>

\* the for loop is exhausted: main returns
Finish ==
    /\ pc = "loop"
    /\ idx > Len(gene_ids)
    /\ pc' = "done"
    /\ UNCHANGED << gene_ids, idx, proj_to_cases, proj_total_ssm_cases, pos,
                    proj_total_cache, files, occ_resp, status, order, net_calls,
                    net_ok, first_ret, ok_ret, last_call, failed, pureVars >>

Next == StartGene \/ Fetch \/ Resolve \/ Write \/ Finish

Spec == Init /\ [][Next]_vars

\* every remote call returns and the interpreter keeps running
FairSpec == Spec /\ WF_vars(Next)

----------------------------------------------------------------------------
(* write_cancer_distribution_tsv alone, on any map and any denominators *)

DriverIdle ==
    /\ gene_ids = << >>
    /\ idx = 1
    /\ pc = "idle"
    /\ proj_to_cases = << >>
    /\ proj_total_ssm_cases = << >>
    /\ pos = 1
    /\ proj_total_cache = << >>
    /\ files = << >>
    /\ occ_resp = NoResp
    /\ status = << >>
    /\ order = << >>
    /\ net_calls = [ p \in Projects |-> 0 ]
    /\ net_ok = [ p \in Projects |-> 0 ]
    /\ first_ret = [ p \in Projects |-> {} ]
    /\ ok_ret = [ p \in Projects |-> {} ]
    /\ last_call = NoLastCall
    /\ failed = {}

\* the dicts project -> set of cases, in every insertion order
OccurrenceMaps ==
    { m \in UNION { [1..k -> [proj : Projects, cases : SUBSET Cases]] : k \in 0..MaxProjects } :
        \A i, j \in 1..Len(m) : i # j => m[i].proj # m[j].proj }

\* the dicts project -> total, over any subset of the projects
DenominatorMaps == UNION { [S -> 0..MaxTotal] : S \in SUBSET Projects }

AggInit ==
    /\ DriverIdle
    /\ LoaderIdle
    /\ agg_map \in OccurrenceMaps
    /\ agg_totals \in DenominatorMaps
    /\ agg_rows = << >>
    /\ agg_rows2 = << >>
    /\ agg_pc = "ready"

Aggregate ==
    /\ agg_pc = "ready"
    /\ agg_rows' = report_rows(agg_map, agg_totals)
    /\ agg_pc' = "once"
    /\ UNCHANGED << driverVars, ldVars, agg_map, agg_totals, agg_rows2 >>

AggregateAgain ==
    /\ agg_pc = "once"
    /\ agg_rows2' = report_rows(agg_map, agg_totals)
    /\ agg_pc' = "twice"
    /\ UNCHANGED << driverVars, ldVars, agg_map, agg_totals, agg_rows >>

AggNext == Aggregate \/ AggregateAgain

AggSpec == AggInit /\ [][AggNext]_vars

----------------------------------------------------------------------------
(* load_gene_ids alone, on any table *)

HeaderCells == { << "F" >>, << "T", "o" >>, << " ", "t", "O", " " >> }

CellValues ==
    { << >>,
      << "E", "N", "S", "G", "1" >>,
      << "E", "N", "S", "G", "1", ".", "3" >>,
      << " ", "E", "N", "S", "G", "0", ".", "1", " " >>,
      << "x", "1" >>,
      << "E", "N", "S", ".", "G" >> }

TableRows == UNION { [1..k -> CellValues] : k \in 1..MaxCols }

Tables ==
    [ header : UNION { [1..k -> HeaderCells] : k \in 1..MaxCols },
      rows : SeqsUpTo(TableRows, MaxRows) ]

\* a line of the file: the cells joined by tabs
RECURSIVE JoinTab(_)
JoinTab(cells) ==
    IF Len(cells) = 0 THEN << >>
    ELSE IF Len(cells) = 1 THEN cells[1]
    ELSE cells[1] \o << TAB >> \o JoinTab(Tail(cells))

FileLines(t) == << JoinTab(t.header) >> \o [ i \in 1..Len(t.rows) |-> JoinTab(t.rows[i]) ]

LoaderInit ==
    /\ DriverIdle
    /\ AggIdle
    /\ ld_table \in Tables
    /\ ld_out = << >>
    /\ ld_pc = "ready"

Load ==
    /\ ld_pc = "ready"
    /\ LET r == load_gene_ids(FileLines(ld_table))
       IN /\ ld_out' = r.value
          /\ ld_pc' = IF r.raised THEN "raised" ELSE "returned"
    /\ UNCHANGED << driverVars, aggVars, ld_table >>

LoaderNext == Load

LoaderSpec == LoaderInit /\ [][LoaderNext]_vars

----------------------------------------------------------------------------
(* Properties of the aggregation (AggSpec) *)

\* the position of a project in the iteration order of the OccurrenceMap
PosInMap(m, p) == CHOOSE i \in 1..Len(m) : m[i].proj = p

\* the denominator the claim gives a project
ClaimedTotal(p) == IF p \in DOMAIN agg_totals THEN agg_totals[p] ELSE 0

\* pct is the float cases / total * 100
IsPercentOf(pct, cases, total) ==
    /\ pct # None
    /\ pct[2] > 0
    /\ pct[1] * total = cases * 100 * pct[2]

RowAsClaimed(row, entry) ==
    /\ row.project_id = entry.proj
    /\ row.cases_affected = Cardinality(entry.cases)
    /\ row.total_cases_with_ssm_data = ClaimedTotal(entry.proj)
    /\ IF ClaimedTotal(entry.proj) > 0
       THEN IsPercentOf(row.percent_cases_affected, Cardinality(entry.cases),
                        ClaimedTotal(entry.proj))
       ELSE row.percent_cases_affected = None

\* C7: the aggregation yields exactly one row per project key of the
\* OccurrenceMap, with cases_affected the size of the project's case set,
\* total_cases_with_ssm_data the project's denominator (0 when the mapping has
\* no entry for it) and percent_cases_affected = cases_affected / total * 100
\* when total > 0, absent otherwise.
C7_OneRowPerProject ==
    agg_pc # "ready" =>
        /\ Len(agg_rows) = Len(agg_map)
        /\ \A i \in 1..Len(agg_map) :
             /\ Cardinality({ k \in 1..Len(agg_rows) :
                                agg_rows[k].project_id = agg_map[i].proj }) = 1
             /\ \E k \in 1..Len(agg_rows) : RowAsClaimed(agg_rows[k], agg_map[i])

\* a map of two projects, one with a percentage that is no whole number of
\* cases, one with no entry in the denominator mapping
C7_Witness ==
    /\ agg_pc = "once"
    /\ Len(agg_rows) = 2
    /\ \E k \in 1..2 :
         /\ agg_rows[k].total_cases_with_ssm_data = 2
         /\ agg_rows[k].cases_affected = 1
         /\ agg_rows[k].percent_cases_affected = << 50, 1 >>
    /\ \E k \in 1..2 :
         /\ agg_rows[k].project_id \notin DOMAIN agg_totals
         /\ agg_rows[k].total_cases_with_ssm_data = 0
         /\ agg_rows[k].percent_cases_affected = None

\* the sort key the claim gives a row: its percentage, 0 when absent
PctOrZero(row) ==
    IF row.percent_cases_affected = None THEN << 0, 1 >>
    ELSE row.percent_cases_affected

RatLess(a, b) == a[1] * b[2] < b[1] * a[2]
RatEq(a, b) == a[1] * b[2] = b[1] * a[2]

\* C8: the rows of a report are ordered by percent_cases_affected descending,
\* an absent percentage counting as 0; rows with equal sort keys keep the
\* order in which the OccurrenceMap iterates their projects; aggregating the
\* same inputs twice gives the identical row sequence.
C8_SortedStable ==
    /\ agg_pc # "ready" =>
         \A i, j \in 1..Len(agg_rows) :
            i < j =>
              /\ ~RatLess(PctOrZero(agg_rows[i]), PctOrZero(agg_rows[j]))
              /\ RatEq(PctOrZero(agg_rows[i]), PctOrZero(agg_rows[j])) =>
                    PosInMap(agg_map, agg_rows[i].project_id)
                      < PosInMap(agg_map, agg_rows[j].project_id)
    /\ agg_pc = "twice" => agg_rows2 = agg_rows

\* the first two rows tie on a percentage that is not 0, reached from
\* different counts, and the map lists their projects in descending number
C8_Witness ==
    /\ agg_pc = "twice"
    /\ Len(agg_rows) >= 2
    /\ agg_rows[1].percent_cases_affected # None
    /\ agg_rows[1].cases_affected # agg_rows[2].cases_affected
    /\ RatEq(PctOrZero(agg_rows[1]), PctOrZero(agg_rows[2]))
    /\ agg_rows[1].project_id > agg_rows[2].project_id

----------------------------------------------------------------------------
(* Properties of the run (Spec, FairSpec) *)

\* the gene whose loop body ended last
LastGene == gene_ids[idx - 1]

\* the loop body of LastGene has just ended by writing its report
JustWritten ==
    /\ pc \in { "loop", "done" }
    /\ idx > 1
    /\ status[LastGene] = "Done-Written"

\* C1 as stated: at most one request per project, and every call after a
\* project's first makes no request and returns what the first returned.
C1_AtMostOneQuery ==
    /\ \A p \in Projects : net_calls[p] <= 1
    /\ last_call.nth = 2 =>
          /\ ~last_call.net
          /\ first_ret[last_call.proj] = { last_call.out }

\* C1 amended: at most one request per project is answered with success, and
\* every call after a project's first successful call makes no request and
\* returns the value of that call.
C1_AtMostOneSuccessfulQuery ==
    /\ \A p \in Projects : net_ok[p] <= 1
    /\ (last_call.proj \in Projects /\ last_call.prior_ok # {}) =>
          /\ ~last_call.net
          /\ ~last_call.out.raised
          /\ last_call.prior_ok = { last_call.out.ret }

\* a call for a project that a previous gene resolved with a total that is
\* not 0
C1_Witness ==
    /\ last_call.proj \in Projects
    /\ last_call.prior_ok # {}
    /\ 0 \notin last_call.prior_ok
    /\ Len(order) = 2

\* C2: the cache is empty when the run starts; a step never removes a key and
\* never changes the value of a key; an entry is written once, by the one
\* successful request for its project.
C2_CacheMonotone ==
    /\ proj_total_cache = << >>
    /\ [][ /\ DOMAIN proj_total_cache \subseteq DOMAIN proj_total_cache'
           /\ \A p \in DOMAIN proj_total_cache :
                 proj_total_cache'[p] = proj_total_cache[p]
           /\ \A p \in Projects :
                 net_ok'[p] = IF p \in DOMAIN proj_total_cache' THEN 1 ELSE 0 ]_vars

\* the second gene asks for a cached project while the cache holds both
C2_Witness ==
    /\ DOMAIN proj_total_cache = Projects
    /\ Len(order) = 2
    /\ last_call.nth = 2
    /\ ~last_call.net
    /\ proj_total_cache[1] # proj_total_cache[2]

\* C3: a project whose resolution fails gets the denominator 0 and the gene
\* goes on: the other projects are resolved, the report is written with one
\* row for every project of the OccurrenceMap, and the failed project's row
\* has total_cases_with_ssm_data = 0 and no percentage.
C3_FailureGivesZeroRow ==
    /\ failed # {} => pc \in { "resolve", "write" } \/ JustWritten
    /\ pc = "write" => DOMAIN proj_total_ssm_cases = Keys(proj_to_cases)
    /\ JustWritten =>
          LET rows == files[LastGene] IN
          /\ Len(rows) = Len(proj_to_cases)
          /\ \A p \in Keys(proj_to_cases) :
                \E k \in 1..Len(rows) :
                   /\ rows[k].project_id = p
                   /\ p \in failed =>
                        /\ rows[k].total_cases_with_ssm_data = 0
                        /\ rows[k].percent_cases_affected = None

\* the first project of a gene failed, the second was resolved to a total
\* that is not 0, and the report has both rows
C3_Witness ==
    /\ JustWritten
    /\ Len(proj_to_cases) = 2
    /\ failed = { proj_to_cases[1].proj }
    /\ Len(files[LastGene]) = 2
    /\ files[LastGene][1].total_cases_with_ssm_data > 0
    /\ files[LastGene][2].total_cases_with_ssm_data = 0

\* a hit that has both fields, each with a value
WellFormed(h) == h.proj \in Projects /\ h.case \in Cases

\* a hit that has both keys (the values may be null or empty)
HasBothKeys(h) == h.proj # Absent /\ h.case # Absent

\* the first place of project p among the well-formed hits
FirstHitOf(hits, p) ==
    CHOOSE i \in 1..Len(hits) :
       /\ WellFormed(hits[i]) /\ hits[i].proj = p
       /\ \A j \in 1..(i - 1) : ~(WellFormed(hits[j]) /\ hits[j].proj = p)

\* m is the OccurrenceMap of exactly the well-formed hits
IsMapOfWellFormed(m, hits) ==
    /\ Keys(m) = { hits[i].proj : i \in { k \in 1..Len(hits) : WellFormed(hits[k]) } }
    /\ \A i \in 1..Len(m) :
          m[i].cases = { hits[k].case :
                           k \in { n \in 1..Len(hits) :
                                     WellFormed(hits[n]) /\ hits[n].proj = m[i].proj } }
    /\ \A i, j \in 1..Len(m) :
          i < j => FirstHitOf(hits, m[i].proj) < FirstHitOf(hits, m[j].proj)

\* C4: in a successful occurrence response every hit that lacks the project
\* field or the case field is dropped without an error: the gene is not a
\* fetch failure and its OccurrenceMap is built from exactly the other hits.
C4_MalformedHitsDiscarded ==
    [][ (pc = "fetch" /\ occ_resp.ok) =>
           /\ status'[gene_ids[idx]] # "Done-Error"
           /\ IsMapOfWellFormed(proj_to_cases', occ_resp.hits) ]_vars

\* what the code does keep of C4: when every hit has both keys, the hits
\* with a null or empty value are dropped and the others make the map
C4_NullFieldsDiscarded ==
    [][ (pc = "fetch" /\ occ_resp.ok
           /\ \A i \in 1..Len(occ_resp.hits) : HasBothKeys(occ_resp.hits[i])) =>
           /\ status'[gene_ids[idx]] # "Done-Error"
           /\ IsMapOfWellFormed(proj_to_cases', occ_resp.hits) ]_vars

\* C5: a report is written for a gene only if its fetch succeeded with a map
\* that is not empty; when the fetch fails or the map is empty the step
\* writes no file, sends no denominator request, leaves the cache alone and
\* moves to the next gene.
C5_NoOutputWithoutData ==
    [][ /\ pc = "fetch" =>
             LET r == get_mutated_cases_by_project(occ_resp) IN
             (r.raised \/ r.value = << >>) =>
                /\ files' = files
                /\ net_calls' = net_calls
                /\ proj_total_cache' = proj_total_cache
                /\ idx' = idx + 1
                /\ pc' = "loop"
                /\ status'[gene_ids[idx]] =
                      IF r.raised THEN "Done-Error" ELSE "Done-NoOutput"
        /\ files' # files =>
             /\ pc = "write"
             /\ status[gene_ids[idx]] = "Resolving"
             /\ proj_to_cases # << >>
             /\ DOMAIN files' = DOMAIN files \cup { gene_ids[idx] }
        /\ \A g \in DOMAIN files' : status'[g] = "Done-Written" ]_vars

\* the run is over: the first gene's fetch failed, the second gene's map was
\* empty, no file exists and no request for a denominator was sent
C5_Witness ==
    /\ pc = "done"
    /\ Len(gene_ids) = 2
    /\ status[gene_ids[1]] = "Done-Error"
    /\ status[gene_ids[2]] = "Done-NoOutput"
    /\ files = << >>
    /\ \A p \in Projects : net_calls[p] = 0

\* the genes whose loop body has begun and not ended
InProgress == { g \in Genes : status[g] \notin Terminal \cup { "Pending" } }

\* C6: every gene of the list is processed once, in the list's ascending
\* order and one at a time, and ends in one terminal state that it keeps; no
\* failed request stops the run, and since every request returns, the run
\* ends with every gene in a terminal state.
C6_EveryGeneOnceThenDone ==
    /\ [](/\ order = SubSeq(gene_ids, 1, Len(order))
          /\ \A i, j \in 1..Len(order) : i < j => order[i] < order[j]
          /\ Cardinality(InProgress) <= 1
          /\ \A i \in 1..Len(gene_ids) :
                /\ i > Len(order) => status[gene_ids[i]] = "Pending"
                /\ i < Len(order) => status[gene_ids[i]] \in Terminal
          /\ pc = "done" =>
                /\ order = gene_ids
                /\ \A g \in Genes : status[g] \in Terminal)
    /\ [][ \A g \in Genes : status[g] \in Terminal => status'[g] = status[g] ]_vars
    /\ <>(pc = "done" /\ \A g \in Genes : status[g] \in Terminal)

\* the run is over and went past a failed fetch and a failed denominator
\* request: the first gene ended in error, the second was written
C6_Witness ==
    /\ pc = "done"
    /\ Len(gene_ids) = 2
    /\ status[gene_ids[1]] = "Done-Error"
    /\ status[gene_ids[2]] = "Done-Written"
    /\ failed # {}

\* C10: in every report of the run the total of a project's row is 0 or the
\* value the cache holds for the project, so no two reports show different
\* totals that are not 0 for one project.
C10_TotalsComeFromCache ==
    /\ \A g \in DOMAIN files :
          \A k \in 1..Len(files[g]) :
             LET row == files[g][k] IN
             \/ row.total_cases_with_ssm_data = 0
             \/ /\ row.project_id \in DOMAIN proj_total_cache
                /\ row.total_cases_with_ssm_data = proj_total_cache[row.project_id]
    /\ \A g1, g2 \in DOMAIN files :
          \A k1 \in 1..Len(files[g1]), k2 \in 1..Len(files[g2]) :
             LET r1 == files[g1][k1]
                 r2 == files[g2][k2]
             IN (/\ r1.project_id = r2.project_id
                 /\ r1.total_cases_with_ssm_data # 0
                 /\ r2.total_cases_with_ssm_data # 0)
                => r1.total_cases_with_ssm_data = r2.total_cases_with_ssm_data

\* two reports have a row for the same project: the first shows 0 because
\* the request failed then, the second shows the total cached later
C10_Witness ==
    /\ DOMAIN files = { 1, 2 }
    /\ \E k1 \in 1..Len(files[1]), k2 \in 1..Len(files[2]) :
          /\ files[1][k1].project_id = files[2][k2].project_id
          /\ files[1][k1].total_cases_with_ssm_data = 0
          /\ files[2][k2].total_cases_with_ssm_data = MaxTotal
          /\ net_calls[files[1][k1].project_id] = 2

----------------------------------------------------------------------------
(* Properties of the loader (LoaderSpec) *)

\* a header cell that is "to" after trimming and case-folding
IsToHeader(h) == h \in { << "T", "o" >>, << " ", "t", "O", " " >> }

HasToColumn(t) == \E i \in 1..Len(t.header) : IsToHeader(t.header[i])

\* the To column of the table: the first column with such a header
ToColumn(t) ==
    CHOOSE i \in 1..Len(t.header) :
       IsToHeader(t.header[i]) /\ \A j \in 1..(i - 1) : ~IsToHeader(t.header[j])

\* the trimmed cells of the To column
ToCells(t) ==
    { strip(t.rows[r][ToColumn(t)]) :
        r \in { k \in 1..Len(t.rows) : Len(t.rows[k]) >= ToColumn(t) } }

Chars(str) == { str[i] : i \in 1..Len(str) }

\* identifiers with the prefix that the To column has both bare and with a
\* version suffix
InBothForms(t) ==
    { id \in ToCells(t) :
        /\ "." \notin Chars(id)
        /\ startswith(id, GENE_PREFIX)
        /\ \E c \in ToCells(t) : "." \in Chars(c) /\ split(c, ".")[1] = id }

Occurrences(seq, x) == Cardinality({ i \in 1..Len(seq) : seq[i] = x })

\* the output is sorted ascending with no duplicate, and every entry starts
\* with the prefix and has no "."
SortedPrefixedNoDot(out) ==
    /\ \A i, j \in 1..Len(out) : i < j => str_less(out[i], out[j])
    /\ \A i \in 1..Len(out) :
          startswith(out[i], GENE_PREFIX) /\ "." \notin Chars(out[i])

\* C9: for every table whose header has a "to" column, load_gene_ids returns
\* a sequence sorted ascending, without duplicates, every entry starting with
\* "ENSG" and holding no "."; an identifier of the To column that is there
\* both with and without a version suffix is in the output once, and one
\* without the prefix is not in the output.
C9_LoaderOutput ==
    (ld_pc # "ready" /\ HasToColumn(ld_table)) =>
        /\ ld_pc = "returned"
        /\ SortedPrefixedNoDot(ld_out)
        /\ \A id \in InBothForms(ld_table) : Occurrences(ld_out, id) = 1
        /\ \A c \in ToCells(ld_table) :
              ~startswith(c, GENE_PREFIX) => Occurrences(ld_out, c) = 0

\* the part of C9 about the shape of the output, which the code keeps on
\* every table
C9_OutputShape ==
    (ld_pc # "ready" /\ HasToColumn(ld_table)) =>
        /\ ld_pc = "returned"
        /\ SortedPrefixedNoDot(ld_out)
        /\ \A id \in InBothForms(ld_table) : Occurrences(ld_out, id) <= 1

\* the rest of C9 on the tables in which no row starts with an empty cell:
\* there the identifiers in both forms are in the output once
C9_OnceWhenFirstCellFilled ==
    (/\ ld_pc # "ready"
     /\ HasToColumn(ld_table)
     /\ \A r \in 1..Len(ld_table.rows) : strip(ld_table.rows[r][1]) # << >>) =>
        \A id \in InBothForms(ld_table) : Occurrences(ld_out, id) = 1

====
